---- MODULE Spec2Model ----
(***************************************************************************)
(* Model of the ChatBot-Q-A repository: the ingestion run (ingest.py       *)
(* main), the /qa request handler (api.py qa) and the text splitter        *)
(* configured by utils.py split_documents.                                 *)
(*                                                                         *)
(* Four specifications share the module:                                   *)
(*   Spec      - ingestion runs against the persistent vector store        *)
(*   SpecQA    - one /qa request after another                             *)
(*   SpecSplit - split_documents applied to bounded inputs                 *)
(*   SpecCtx   - context assembly of retrieved documents, API and CLI      *)
(***************************************************************************)
EXTENDS Integers, Sequences, FiniteSets, TLC

VARIABLES
    \* ---- ingest.py main ----
    dataDirExists,  \* Path(DATA_DIR).exists()
    nChunks,        \* the document set: number of chunks its split yields
    runs,           \* number of main() runs started so far
    seed,           \* per-process salt of the built-in str hash
    ipc,            \* "start" (no run in progress) | "indexing"
    outcome,        \* how the last run ended
    bi,             \* loop variable i of the batch loop
    calls,          \* db.add_documents calls issued by the current run
    store,          \* the Chroma collection: set of [id, doc]
    err,            \* exception that left main(), or NoErr
    progress,       \* description of task4 shown by the progress display
    counts,         \* final_count printed by each run that reached line 91
    \* ---- api.py qa ----
    qpc,            \* "idle" | "retrieve" | "generate" | "done"
    query,          \* the request body, [qlen, top_k]
    docs,           \* result of retriever.get_relevant_documents
    storeQueries,   \* k of every store query issued for this request
    llmCalls,       \* context of every llm.invoke issued for this request
    fault,          \* which collaborator call raised: "none" | "retriever" | "llm"
    responses,      \* HTTP responses sent for this request
    \* ---- utils.py split_documents ----
    text,           \* page_content of the document to split
    chunk_size,     \* argument chunk_size
    chunk_overlap,  \* argument chunk_overlap
    spc,            \* "call" | "done"
    result,         \* [raised, chunks]: what split_documents gave back
    \* ---- context assembly: api.py qa, qa_cli.py format_context ----
    ctxDocs,        \* the retrieved documents handed to the assembly
    ctxPath,        \* "input" | "api" | "cli": which path assembled them
    context         \* the blocks of the assembled context, in join order

ingestVars == <<dataDirExists, nChunks, runs, seed, ipc, outcome, bi, calls,
                store, err, progress, counts>>
qaVars == <<qpc, query, docs, storeQueries, llmCalls, fault, responses>>
splitVars == <<text, chunk_size, chunk_overlap, spc, result>>
ctxVars == <<ctxDocs, ctxPath, context>>
vars == <<ingestVars, qaVars, splitVars, ctxVars>>

Min(a, b) == IF a < b THEN a ELSE b
Range(s) == {s[j] : j \in 1..Len(s)}

RECURSIVE Concat(_)
Concat(ss) == IF ss = <<>> THEN <<>> ELSE Head(ss) \o Concat(Tail(ss))

(***************************************************************************)
(*                         ingest.py : main()                              *)
(***************************************************************************)

batch_size == 100

\* Bounds of the ingestion model.
MaxChunks == 201
MaxRuns == 2
MaxSeed == 1
DistinctTexts == 3

ChunkCounts ==
    {0, 1, 2, batch_size - 1, batch_size, batch_size + 1, 2 * batch_size, MaxChunks}
HashSeeds == 0..MaxSeed

NoErr == [exc |-> "none"]
NoProgress == "Indexation dans Chroma..."

\* chunk number i (0-based) of the split of the document set; texts repeat,
\* so equal (page_content, metadata) occurs at different ordinals.
ChunkAt(i) == [page_content |-> i % DistinctTexts, source |-> "doc.txt"]

\* chunks = split_documents(docs)
Chunks(n) == [j \in 1..n |-> ChunkAt(j - 1)]

\* hash(chunk.page_content + str(chunk.metadata)): the built-in hash of a
\* str, salted per process; a value fixed by (salt, text).
Hash(s, chunk) == <<s, chunk.page_content, chunk.source>>

\* f"chunk_{hash(...)}_{i}"
ChunkId(s, chunk, i) == <<"chunk", Hash(s, chunk), i>>

\* ids = [... for i, chunk in enumerate(chunks)]
Ids(s, chunks) == [j \in 1..Len(chunks) |-> ChunkId(s, chunks[j], j - 1)]

\* seq[i:i+batch_size-1]: a slice one element short
BatchShort(seq, i) == SubSeq(seq, i + 1, Min(i + batch_size - 1, Len(seq)))

\* seq[i:i+batch_size]
Batch(seq, i) == SubSeq(seq, i + 1, Min(i + batch_size, Len(seq)))

\* range(0, len(chunks), batch_size): the start after i
NextStart(i) == i + batch_size

\* db.add_documents(batch_chunks, ids=batch_ids): the store replaces on equal id
Upsert(st, batch_ids, batch_chunks) ==
    {r \in st : r.id \notin Range(batch_ids)}
        \cup {[id |-> batch_ids[j], doc |-> batch_chunks[j]] : j \in 1..Len(batch_ids)}

\* the exception add_documents raised, as it leaves main()
StoreError == [exc |-> "StoreError"]

\* description=f"Indexation... {min(i+batch_size, len(chunks))}/{len(chunks)}"
ProgressAfter(i, n) == <<"Indexation...", Min(i + batch_size, n), n>>

IngestInit ==
    /\ dataDirExists \in BOOLEAN
    /\ nChunks \in ChunkCounts
    /\ (~dataDirExists => nChunks = 0)
    /\ runs = 0
    /\ seed = 0
    /\ ipc = "start"
    /\ outcome = "none"
    /\ bi = 0
    /\ calls = <<>>
    /\ store = {}
    /\ err = NoErr
    /\ progress = NoProgress
    /\ counts = <<>>

IngestIdle ==
    /\ dataDirExists = FALSE
    /\ nChunks = 0
    /\ runs = 0
    /\ seed = 0
    /\ ipc = "start"
    /\ outcome = "none"
    /\ bi = 0
    /\ calls = <<>>
    /\ store = {}
    /\ err = NoErr
    /\ progress = NoProgress
    /\ counts = <<>>

\* a new process starts main(); its locals are fresh
BeginRun ==
    /\ ipc = "start"
    /\ runs < MaxRuns
    /\ runs' = runs + 1
    /\ bi' = 0
    /\ calls' = <<>>
    /\ err' = NoErr
    /\ progress' = NoProgress

\* data directory missing: it is created and main returns
RunMissingDir ==
    /\ BeginRun
    /\ ~dataDirExists
    /\ dataDirExists' = TRUE
    /\ outcome' = "missing_dir"
    /\ seed' \in HashSeeds
    /\ UNCHANGED <<nChunks, ipc, store, counts>>

\* load_documents returns []: main returns
RunNoDocs ==
    /\ BeginRun
    /\ dataDirExists
    /\ nChunks = 0
    /\ outcome' = "no_docs"
    /\ seed' \in HashSeeds
    /\ UNCHANGED <<dataDirExists, nChunks, ipc, store, counts>>

\* documents loaded and split, the store opened, ids computed
RunLoadSplit ==
    /\ BeginRun
    /\ dataDirExists
    /\ nChunks > 0
    /\ seed' \in HashSeeds
    /\ ipc' = "indexing"
    /\ outcome' = "running"
    /\ UNCHANGED <<dataDirExists, nChunks, store, counts>>

\* one iteration of the batch loop, add_documents returning normally
IndexBatch ==
    /\ ipc = "indexing"
    /\ bi < nChunks
    /\ LET chunks == Chunks(nChunks)
           ids == Ids(seed, chunks)
           batch_chunks == Batch(chunks, bi)
           batch_ids == Batch(ids, bi)
       IN  /\ calls' = Append(calls, [chunks |-> batch_chunks, ids |-> batch_ids])
           /\ store' = Upsert(store, batch_ids, batch_chunks)
    /\ progress' = ProgressAfter(bi, nChunks)
    /\ bi' = NextStart(bi)
    /\ UNCHANGED <<dataDirExists, nChunks, runs, seed, ipc, outcome, err, counts>>

\* one iteration of the batch loop, add_documents raising: nothing catches
\* the exception, which leaves main()
IndexBatchFails ==
    /\ ipc = "indexing"
    /\ bi < nChunks
    /\ LET chunks == Chunks(nChunks)
           ids == Ids(seed, chunks)
       IN  calls' = Append(calls, [chunks |-> Batch(chunks, bi), ids |-> Batch(ids, bi)])
    /\ err' = StoreError
    /\ ipc' = "start"
    /\ outcome' = "failed"
    /\ UNCHANGED <<dataDirExists, nChunks, runs, seed, bi, store, progress, counts>>

\* loop exhausted: final statistics printed
Finish ==
    /\ ipc = "indexing"
    /\ bi >= nChunks
    /\ counts' = Append(counts, Cardinality(store))
    /\ ipc' = "start"
    /\ outcome' = "done"
    /\ UNCHANGED <<dataDirExists, nChunks, runs, seed, bi, calls, store, err, progress>>

\* loop exhausted: db._collection.count() raises, the warning is printed
FinishNoStats ==
    /\ ipc = "indexing"
    /\ bi >= nChunks
    /\ ipc' = "start"
    /\ outcome' = "done_nostats"
    /\ UNCHANGED <<dataDirExists, nChunks, runs, seed, bi, calls, store, err,
                   progress, counts>>

(***************************************************************************)
(*                          api.py : POST /qa                              *)
(***************************************************************************)

TOP_K == 4
TopKMin == 1
TopKMax == 10
QuestionMin == 1
QuestionMax == 500

\* Bounds of the request model.
MaxDocs == 4
TopKSlack == 1

\* Optional[int]: None is the empty tuple, a given value v is <<v>>
None == <<>>
SourceNames == {"A", "B", "C"}
LLMTexts == {"r1", "r2"}

TopKInputs == {None} \cup {<<v>> : v \in (TopKMin - TopKSlack)..(TopKMax + TopKSlack)}
QuestionLens == {QuestionMin - 1, QuestionMin, QuestionMax, QuestionMax + 1}
Queries == [qlen : QuestionLens, top_k : TopKInputs]

\* a retrieved document: its metadata has a "source" key or lacks it
MetadataValues == {[source |-> s] : s \in SourceNames} \cup {[page |-> 0]}

\* page_content is held as a text code n; TextOf(n) is the text, n characters
TextOf(n) ==
    [j \in 1..n |-> IF j % 3 = 1 THEN "a" ELSE IF j % 3 = 2 THEN "b" ELSE "c"]

DocValues == {[metadata |-> m, page_content |-> 1] : m \in MetadataValues}
DocSeqs(n) == UNION {[1..m -> DocValues] : m \in 0..n}

\* top_k left unconstrained: only the question length is validated
ValidQuestionOnly(q) == q.qlen >= QuestionMin /\ q.qlen <= QuestionMax

\* class Query: Field(..., min_length=1, max_length=500), Field(None, ge=1, le=10)
ValidQuery(q) ==
    /\ q.qlen >= QuestionMin
    /\ q.qlen <= QuestionMax
    /\ (q.top_k # None => (q.top_k[1] >= TopKMin /\ q.top_k[1] <= TopKMax))

\* the response FastAPI sends when the body does not validate; qa() is not entered
Http422 == [status |-> 422]

\* k = q.top_k if q.top_k else TOP_K
ChooseK(top_k) == IF top_k # None /\ top_k[1] # 0 THEN top_k[1] ELSE TOP_K

\* doc.metadata.get("source", "inconnu")
SourceOf(doc) ==
    IF "source" \in DOMAIN doc.metadata THEN doc.metadata["source"] ELSE "inconnu"

\* the empty-result branch never taken
NeverNoDocs(ds) == FALSE

\* if not docs
NoDocs(ds) == Len(ds) = 0

\* Answer(answer="Je n'ai trouve aucun document pertinent ...", sources=[])
NoDocAnswer == [status |-> 200, answer |-> "aucun document pertinent", sources |-> <<>>]

\* context_parts: one block "[Source i: source]\n page_content" per document,
\* i counted from 1; the blocks are joined by a blank line in this order
ContextParts(ds) ==
    [j \in 1..Len(ds) |->
        [label |-> "Source", rank |-> j, source |-> SourceOf(ds[j]),
         content |-> TextOf(ds[j].page_content)]]

\* sources = [doc.metadata.get("source", "inconnu") for doc in docs]
SourcesOf(ds) == [j \in 1..Len(ds) |-> SourceOf(ds[j])]

\* list(dict.fromkeys(sources)): a key is inserted when first seen, and the
\* keys come out in insertion order
RECURSIVE FromKeys(_, _)
FromKeys(keys, sources) ==
    IF sources = <<>> THEN keys
    ELSE IF Head(sources) \in Range(keys) THEN FromKeys(keys, Tail(sources))
    ELSE FromKeys(Append(keys, Head(sources)), Tail(sources))

\* duplicates removed keeping the last occurrence instead of the first
RECURSIVE KeepLast(_)
KeepLast(sources) ==
    IF sources = <<>> THEN <<>>
    ELSE IF Head(sources) \in Range(Tail(sources)) THEN KeepLast(Tail(sources))
    ELSE <<Head(sources)>> \o KeepLast(Tail(sources))

UniqueSources(sources) == FromKeys(<<>>, sources)

\* Answer(answer=resp.content, sources=unique_sources)
MakeAnswer(content, ds) ==
    [status |-> 200, answer |-> content, sources |-> UniqueSources(SourcesOf(ds))]

\* the failure answered with an empty Answer instead of an error
PartialAnswer == [status |-> 200, answer |-> "", sources |-> <<>>]

\* except Exception: raise HTTPException(status_code=500, ...)
Http500 == [status |-> 500]

QAInit ==
    /\ qpc = "idle"
    /\ query = [qlen |-> QuestionMin, top_k |-> None]
    /\ docs = <<>>
    /\ storeQueries = <<>>
    /\ llmCalls = <<>>
    /\ fault = "none"
    /\ responses = <<>>

\* a body that fails validation: 422, qa() never runs
Reject ==
    /\ qpc = "idle"
    /\ \E q \in Queries :
          /\ ~ValidQuery(q)
          /\ query' = q
    /\ responses' = <<Http422>>
    /\ qpc' = "done"
    /\ UNCHANGED <<docs, storeQueries, llmCalls, fault>>

\* a valid body: qa(q) is entered
Accept ==
    /\ qpc = "idle"
    /\ \E q \in Queries :
          /\ ValidQuery(q)
          /\ query' = q
    /\ qpc' = "retrieve"
    /\ UNCHANGED <<docs, storeQueries, llmCalls, fault, responses>>

\* the retriever returns no document: the fixed Answer is returned
RetrieveEmpty ==
    /\ qpc = "retrieve"
    /\ storeQueries' = Append(storeQueries, ChooseK(query.top_k))
    /\ docs' = <<>>
    /\ IF NoDocs(docs')
       THEN /\ responses' = Append(responses, NoDocAnswer)
            /\ qpc' = "done"
       ELSE /\ responses' = responses
            /\ qpc' = "generate"
    /\ UNCHANGED <<query, llmCalls, fault>>

\* the retriever returns between 1 and k documents
RetrieveDocs ==
    /\ qpc = "retrieve"
    /\ LET k == ChooseK(query.top_k)
       IN  /\ storeQueries' = Append(storeQueries, k)
           /\ \E ds \in DocSeqs(Min(k, MaxDocs)) :
                 /\ ds # <<>>
                 /\ docs' = ds
    /\ IF NoDocs(docs')
       THEN /\ responses' = Append(responses, NoDocAnswer)
            /\ qpc' = "done"
       ELSE /\ responses' = responses
            /\ qpc' = "generate"
    /\ UNCHANGED <<query, llmCalls, fault>>

\* retriever.get_relevant_documents raises: the except block answers 500
RetrieveFails ==
    /\ qpc = "retrieve"
    /\ storeQueries' = Append(storeQueries, ChooseK(query.top_k))
    /\ fault' = "retriever"
    /\ responses' = Append(responses, Http500)
    /\ qpc' = "done"
    /\ UNCHANGED <<query, docs, llmCalls>>

\* llm.invoke returns: the Answer is built and returned
Generate ==
    /\ qpc = "generate"
    /\ llmCalls' = Append(llmCalls, ContextParts(docs))
    /\ \E content \in LLMTexts :
          responses' = Append(responses, MakeAnswer(content, docs))
    /\ qpc' = "done"
    /\ UNCHANGED <<query, docs, storeQueries, fault>>

\* llm.invoke raises: the except block answers 500
GenerateFails ==
    /\ qpc = "generate"
    /\ llmCalls' = Append(llmCalls, ContextParts(docs))
    /\ fault' = "llm"
    /\ responses' = Append(responses, Http500)
    /\ qpc' = "done"
    /\ UNCHANGED <<query, docs, storeQueries>>

\* the request is over; the server waits for the next one
NextRequest ==
    /\ qpc = "done"
    /\ qpc' = "idle"
    /\ query' = [qlen |-> QuestionMin, top_k |-> None]
    /\ docs' = <<>>
    /\ storeQueries' = <<>>
    /\ llmCalls' = <<>>
    /\ fault' = "none"
    /\ responses' = <<>>

(***************************************************************************)
(*                     qa_cli.py : format_context                          *)
(***************************************************************************)

\* if len(content) > 500: content = content[:500] + "..."
TruncateAt == 500

\* Bounds of the context model.
MaxCtxDocs == 2
ContentSlack == 2

ContentLens ==
    {0, 1, TruncateAt - 1, TruncateAt, TruncateAt + 1, TruncateAt + ContentSlack}
CtxDocValues == [metadata : MetadataValues, page_content : ContentLens]
CtxDocSeqs == UNION {[1..m -> CtxDocValues] : m \in 0..MaxCtxDocs}

Ellipsis == <<".", ".", ".">>

\* the cut made one character early
TruncateEarly(content) ==
    IF Len(content) >= TruncateAt
    THEN SubSeq(content, 1, TruncateAt - 1) \o Ellipsis
    ELSE content

\* content[:500] + "..." when len(content) > 500, content otherwise
Truncate(content) ==
    IF Len(content) > TruncateAt
    THEN SubSeq(content, 1, TruncateAt) \o Ellipsis
    ELSE content

\* format_context: one block "[DOC i] Source: src\n content" per document,
\* i counted from 1; the blocks are joined by a blank line in this order
FormatContext(ds) ==
    [j \in 1..Len(ds) |->
        [label |-> "DOC", rank |-> j, source |-> SourceOf(ds[j]),
         content |-> Truncate(TextOf(ds[j].page_content))]]

CtxInit ==
    /\ ctxDocs \in CtxDocSeqs
    /\ ctxPath = "input"
    /\ context = <<>>

CtxIdle ==
    /\ ctxDocs = <<>>
    /\ ctxPath = "input"
    /\ context = <<>>

\* api.py qa builds the context of the retrieved documents (none is built
\* for an empty retrieval)
ApiAssemble ==
    /\ ctxPath = "input"
    /\ ~NoDocs(ctxDocs)
    /\ context' = ContextParts(ctxDocs)
    /\ ctxPath' = "api"
    /\ UNCHANGED ctxDocs

\* qa_cli.py main calls format_context on the retrieved documents (not
\* called for an empty retrieval)
CliFormat ==
    /\ ctxPath = "input"
    /\ ctxDocs # <<>>
    /\ context' = FormatContext(ctxDocs)
    /\ ctxPath' = "cli"
    /\ UNCHANGED ctxDocs

(***************************************************************************)
(*                     utils.py : split_documents                          *)
(*                                                                         *)
(* split_documents builds RecursiveCharacterTextSplitter(chunk_size,       *)
(* chunk_overlap, separators) and returns splitter.split_documents(docs).  *)
(* The operators below follow that call: the constructor's argument check, *)
(* then the recursive split with keep_separator and strip_whitespace at    *)
(* their defaults (True).  A text is a sequence of one-character strings.  *)
(***************************************************************************)

\* Bounds of the splitter model.
MaxTextLen == 5
MaxChunkSize == 3

\* the docstring example: chunk_size=30, chunk_overlap=5
ExampleChunkSize == 30
ExampleChunkOverlap == 5

Alphabet == {"a", " ", ".", "\n"}
Whitespace == {" ", "\n"}

\* separators=["\n\n", "\n", ".", "!", "?", " ", ""]
Separators == << <<"\n", "\n">>, <<"\n">>, <<".">>, <<"!">>, <<"?">>, <<" ">>, <<>> >>

\* "Le Cameroun est un pays d'Afrique centrale. Sa capitale est Yaounde."
ExampleText ==
    <<"L", "e", " ", "C", "a", "m", "e", "r", "o", "u", "n", " ", "e", "s", "t", " ",
      "u", "n", " ", "p", "a", "y", "s", " ", "d", "'", "A", "f", "r", "i", "q", "u",
      "e", " ", "c", "e", "n", "t", "r", "a", "l", "e", ".", " ", "S", "a", " ", "c",
      "a", "p", "i", "t", "a", "l", "e", " ", "e", "s", "t", " ", "Y", "a", "o", "u",
      "n", "d", "e", ".">>

Texts == UNION {[1..m -> Alphabet] : m \in 0..MaxTextLen}

\* the separator occurs in txt at position p
MatchAt(txt, sep, p) ==
    /\ p + Len(sep) - 1 <= Len(txt)
    /\ \A j \in 1..Len(sep) : txt[p + j - 1] = sep[j]

\* re.search(re.escape(sep), txt)
Found(txt, sep) == \E p \in 1..Len(txt) : MatchAt(txt, sep, p)

\* re.split on a non-empty separator, each separator kept at the start of the
\* piece that follows it; cur is the piece being read
RECURSIVE SplitKeep(_, _, _, _)
SplitKeep(txt, sep, p, cur) ==
    IF p > Len(txt) THEN <<cur>>
    ELSE IF MatchAt(txt, sep, p)
         THEN <<cur>> \o SplitKeep(txt, sep, p + Len(sep), sep)
         ELSE SplitKeep(txt, sep, p + 1, Append(cur, txt[p]))

\* the pieces of txt on sep, empty pieces dropped; the separator "" gives
\* the characters of txt
SplitWithRegex(txt, sep) ==
    IF sep = <<>> THEN [j \in 1..Len(txt) |-> <<txt[j]>>]
    ELSE SelectSeq(SplitKeep(txt, sep, 1, <<>>), LAMBDA piece : piece # <<>>)

RECURSIVE LStrip(_)
LStrip(txt) ==
    IF txt # <<>> /\ Head(txt) \in Whitespace THEN LStrip(Tail(txt)) ELSE txt

RECURSIVE RStrip(_)
RStrip(txt) ==
    IF txt # <<>> /\ txt[Len(txt)] \in Whitespace
    THEN RStrip(SubSeq(txt, 1, Len(txt) - 1))
    ELSE txt

\* str.strip()
Strip(txt) == RStrip(LStrip(txt))

\* _join_docs: the pieces joined and stripped, as a list of zero or one
\* chunk (None when the stripped text is empty)
JoinDocs(pieces) ==
    LET joined == Strip(Concat(pieces))
    IN  IF joined = <<>> THEN <<>> ELSE <<joined>>

\* the loop stopping as soon as at most overlap characters are kept, whether
\* or not the next piece fits
RECURSIVE ShrinkToOverlap(_, _, _, _)
ShrinkToOverlap(cur, len, size, overlap) ==
    IF Len(Concat(cur)) > overlap
    THEN ShrinkToOverlap(Tail(cur), len, size, overlap)
    ELSE cur

\* the while loop of _merge_splits: pieces leave the front of current_doc
\* while more than chunk_overlap characters are kept, or while the next
\* piece (of length len) would not fit
RECURSIVE Shrink(_, _, _, _)
Shrink(cur, len, size, overlap) ==
    LET total == Len(Concat(cur))
    IN  IF total > overlap \/ (total + len > size /\ total > 0)
        THEN Shrink(Tail(cur), len, size, overlap)
        ELSE cur

\* _merge_splits: pieces packed greedily into chunks of at most size characters
RECURSIVE MergeSplits(_, _, _, _, _)
MergeSplits(splits, out, cur, size, overlap) ==
    IF splits = <<>> THEN out \o JoinDocs(cur)
    ELSE LET d == Head(splits)
             total == Len(Concat(cur))
         IN  IF total + Len(d) > size /\ cur # <<>>
             THEN MergeSplits(Tail(splits), out \o JoinDocs(cur),
                              Append(Shrink(cur, Len(d), size, overlap), d),
                              size, overlap)
             ELSE MergeSplits(Tail(splits), out, Append(cur, d), size, overlap)

\* index of the separator _split_text picks: the first that is "" or occurs
\* in txt
RECURSIVE PickSeparator(_, _, _)
PickSeparator(txt, seps, j) ==
    IF j >= Len(seps) THEN Len(seps)
    ELSE IF seps[j] = <<>> \/ Found(txt, seps[j]) THEN j
    ELSE PickSeparator(txt, seps, j + 1)

\* _split_text: pieces shorter than chunk_size are merged, a piece that is
\* not is split again on the separators that remain
RECURSIVE SplitText(_, _, _, _)
RECURSIVE SplitLoop(_, _, _, _, _, _)
SplitLoop(splits, new_separators, final_chunks, good, size, overlap) ==
    IF splits = <<>>
    THEN IF good # <<>>
         THEN final_chunks \o MergeSplits(good, <<>>, <<>>, size, overlap)
         ELSE final_chunks
    ELSE LET piece == Head(splits)
         IN  IF Len(piece) < size
             THEN SplitLoop(Tail(splits), new_separators, final_chunks,
                            Append(good, piece), size, overlap)
             ELSE LET merged == IF good # <<>>
                                THEN MergeSplits(good, <<>>, <<>>, size, overlap)
                                ELSE <<>>
                      deeper == IF new_separators = <<>>
                                THEN <<piece>>
                                ELSE SplitText(piece, new_separators, size, overlap)
                  IN  SplitLoop(Tail(splits), new_separators,
                                final_chunks \o merged \o deeper, <<>>, size, overlap)

SplitText(txt, seps, size, overlap) ==
    LET j == PickSeparator(txt, seps, 1)
        separator == seps[j]
        new_separators == IF separator = <<>> THEN <<>>
                          ELSE SubSeq(seps, j + 1, Len(seps))
    IN  SplitLoop(SplitWithRegex(txt, separator), new_separators, <<>>, <<>>,
                  size, overlap)

\* the argument check made when the splitter is built
BadConfig(size, overlap) == overlap > size

\* split_documents(docs, chunk_size, chunk_overlap) on one document
SplitDocuments(txt, size, overlap) ==
    IF BadConfig(size, overlap)
    THEN [raised |-> TRUE, chunks |-> <<>>]
    ELSE [raised |-> FALSE, chunks |-> SplitText(txt, Separators, size, overlap)]

NoResult == [raised |-> FALSE, chunks |-> <<>>]

SplitInit ==
    /\ \/ /\ text \in Texts
          /\ chunk_size \in 1..MaxChunkSize
          /\ chunk_overlap \in 0..(MaxChunkSize + 1)
       \/ /\ text = ExampleText
          /\ chunk_size = ExampleChunkSize
          /\ chunk_overlap = ExampleChunkOverlap
    /\ spc = "call"
    /\ result = NoResult

SplitIdle ==
    /\ text = <<>>
    /\ chunk_size = 1
    /\ chunk_overlap = 0
    /\ spc = "call"
    /\ result = NoResult

\* the call returns the chunks
SplitReturns ==
    /\ spc = "call"
    /\ ~SplitDocuments(text, chunk_size, chunk_overlap).raised
    /\ result' = SplitDocuments(text, chunk_size, chunk_overlap)
    /\ spc' = "done"
    /\ UNCHANGED <<text, chunk_size, chunk_overlap>>

\* the call raises while building the splitter
SplitRaises ==
    /\ spc = "call"
    /\ SplitDocuments(text, chunk_size, chunk_overlap).raised
    /\ result' = SplitDocuments(text, chunk_size, chunk_overlap)
    /\ spc' = "done"
    /\ UNCHANGED <<text, chunk_size, chunk_overlap>>

(***************************************************************************)
(*                           Specifications                                *)
(***************************************************************************)

Init == IngestInit /\ QAInit /\ SplitIdle /\ CtxIdle

Next ==
    \/ (RunMissingDir /\ UNCHANGED <<qaVars, splitVars, ctxVars>>)
    \/ (RunNoDocs /\ UNCHANGED <<qaVars, splitVars, ctxVars>>)
    \/ (RunLoadSplit /\ UNCHANGED <<qaVars, splitVars, ctxVars>>)
    \/ (IndexBatch /\ UNCHANGED <<qaVars, splitVars, ctxVars>>)
    \/ (IndexBatchFails /\ UNCHANGED <<qaVars, splitVars, ctxVars>>)
    \/ (Finish /\ UNCHANGED <<qaVars, splitVars, ctxVars>>)
    \/ (FinishNoStats /\ UNCHANGED <<qaVars, splitVars, ctxVars>>)

Spec == Init /\ [][Next]_vars

InitQA == IngestIdle /\ QAInit /\ SplitIdle /\ CtxIdle

NextQA ==
    \/ (Reject /\ UNCHANGED <<ingestVars, splitVars, ctxVars>>)
    \/ (Accept /\ UNCHANGED <<ingestVars, splitVars, ctxVars>>)
    \/ (RetrieveEmpty /\ UNCHANGED <<ingestVars, splitVars, ctxVars>>)
    \/ (RetrieveDocs /\ UNCHANGED <<ingestVars, splitVars, ctxVars>>)
    \/ (RetrieveFails /\ UNCHANGED <<ingestVars, splitVars, ctxVars>>)
    \/ (Generate /\ UNCHANGED <<ingestVars, splitVars, ctxVars>>)
    \/ (GenerateFails /\ UNCHANGED <<ingestVars, splitVars, ctxVars>>)
    \/ (NextRequest /\ UNCHANGED <<ingestVars, splitVars, ctxVars>>)

SpecQA == InitQA /\ [][NextQA]_vars

InitSplit == IngestIdle /\ QAInit /\ SplitInit /\ CtxIdle

NextSplit ==
    \/ (SplitReturns /\ UNCHANGED <<ingestVars, qaVars, ctxVars>>)
    \/ (SplitRaises /\ UNCHANGED <<ingestVars, qaVars, ctxVars>>)

SpecSplit == InitSplit /\ [][NextSplit]_vars

InitCtx == IngestIdle /\ QAInit /\ SplitIdle /\ CtxInit

NextCtx ==
    \/ (ApiAssemble /\ UNCHANGED <<ingestVars, qaVars, splitVars>>)
    \/ (CliFormat /\ UNCHANGED <<ingestVars, qaVars, splitVars>>)

SpecCtx == InitCtx /\ [][NextCtx]_vars

(***************************************************************************)
(*                              Properties                                 *)
(***************************************************************************)

CeilDiv(n, d) == (n + d - 1) \div d

Prefix(s, n) == SubSeq(s, 1, n)
Suffix(s, n) == SubSeq(s, Len(s) - n + 1, Len(s))

\* position of the first occurrence of x in s
FirstIndex(s, x) == CHOOSE j \in 1..Len(s) : s[j] = x /\ \A h \in 1..(j - 1) : s[h] # x

\* C1: two runs of main() in a row on the same document set, both reaching
\* the final statistics, leave the same chunk count in the store after the
\* second run as after the first.
C1_IdempotentIngestion ==
    (runs = 2 /\ Len(counts) = 2) => counts[2] = counts[1]

\* C2: when qa() answers from a non-empty retrieved sequence, the returned
\* sources hold each distinct source of docs exactly once and nothing else,
\* in the order of their first occurrence in docs.
C2_SourcesDeduplicated ==
    (qpc = "done" /\ docs # <<>> /\ fault = "none") =>
        /\ Len(responses) = 1
        /\ LET src == SourcesOf(docs)
               out == responses[1].sources
           IN  /\ Range(out) = Range(src)
               /\ \A a, b \in 1..Len(out) : a # b => out[a] # out[b]
               /\ \A a, b \in 1..Len(out) :
                      a < b => FirstIndex(src, out[a]) < FirstIndex(src, out[b])

\* C2 witness: sources [A, B, A, C] were retrieved and [A, B, C] returned.
C2_Witness ==
    /\ qpc = "done"
    /\ fault = "none"
    /\ SourcesOf(docs) = <<"A", "B", "A", "C">>
    /\ responses[1].sources = <<"A", "B", "C">>

\* C3: when the store returns zero documents, qa() returns the fixed
\* no-document Answer (status 200, sources = []) and the language model is
\* not invoked for that request.
C3_EmptyResultPolicy ==
    /\ (qpc = "generate" => docs # <<>>)
    /\ (qpc = "done" /\ storeQueries # <<>> /\ fault = "none" /\ docs = <<>>) =>
           /\ llmCalls = <<>>
           /\ Len(responses) = 1
           /\ responses[1].status = 200
           /\ responses[1].answer = "aucun document pertinent"
           /\ responses[1].sources = <<>>

\* C3 witness: a store query came back empty and the request was answered.
C3_Witness ==
    /\ qpc = "done"
    /\ Len(storeQueries) = 1
    /\ fault = "none"
    /\ docs = <<>>
    /\ responses = <<NoDocAnswer>>

\* C4: an explicit top_k outside [1, 10] is rejected with no store query
\* issued; every store query uses the explicit top_k when it is in [1, 10]
\* and the default 4 when top_k is absent.
C4_TopKHandling ==
    /\ (query.top_k # <<>> /\ query.top_k[1] \notin 1..10) =>
           /\ storeQueries = <<>>
           /\ llmCalls = <<>>
           /\ responses = <<[status |-> 422]>>
    /\ \A j \in 1..Len(storeQueries) :
           /\ query.top_k # <<>> => storeQueries[j] = query.top_k[1]
           /\ query.top_k = <<>> => storeQueries[j] = 4
           /\ storeQueries[j] \in 1..10

\* C4 witness: top_k = 11 was rejected before any store query.
C4_Witness ==
    /\ qpc = "done"
    /\ query.top_k = <<11>>
    /\ responses = <<Http422>>
    /\ storeQueries = <<>>

\* C5: when the store call for batch j fails, no later batch is sent,
\* batches 0..j-1 stay committed, and the error that reaches the caller
\* carries the count of chunks indexed so far, j * batch_size.
C5_BatchFailureReportsCount ==
    outcome = "failed" =>
        LET j == bi \div batch_size
            chunks == Chunks(nChunks)
            ids == Ids(seed, chunks)
        IN  /\ Len(calls) = j + 1
            /\ \A q \in 1..(j * batch_size) : [id |-> ids[q], doc |-> chunks[q]] \in store
            /\ "indexed" \in DOMAIN err
            /\ err.indexed = j * batch_size

\* C6: a request issues at most one store query and one generation call and
\* gets at most one response; when the retriever or the language model
\* fails, that response is the single HTTP 500 error, with no answer text
\* and no sources.
C6_QueryFailure ==
    /\ Len(storeQueries) <= 1
    /\ Len(llmCalls) <= 1
    /\ Len(responses) <= 1
    /\ fault # "none" =>
           /\ qpc = "done"
           /\ Len(responses) = 1
           /\ responses[1].status = 500
           /\ DOMAIN responses[1] = {"status"}
           /\ (fault = "retriever" => llmCalls = <<>>)

\* C6 witness: the generation call failed after one store query.
C6_Witness ==
    /\ fault = "llm"
    /\ Len(storeQueries) = 1
    /\ Len(llmCalls) = 1
    /\ responses = <<Http500>>

\* C7: split_documents called with chunk_overlap >= chunk_size, equality
\* included, raises and returns no chunks.
C7_OverlapNotBelowSizeRaises ==
    (spc = "done" /\ chunk_overlap >= chunk_size) =>
        (result.raised /\ result.chunks = <<>>)

\* C8: with chunk_overlap < chunk_size, every chunk the splitter returns has
\* at most chunk_size characters, the chunks that begin with characters kept
\* from the previous chunk included.
C8_SizeBound ==
    (spc = "done" /\ chunk_overlap < chunk_size) =>
        /\ ~result.raised
        /\ \A j \in 1..Len(result.chunks) : Len(result.chunks[j]) <= chunk_size

\* C8 witness: a chunk of exactly chunk_size characters that begins with the
\* characters kept from the end of the chunk before it.
C8_Witness ==
    /\ spc = "done"
    /\ chunk_overlap > 0
    /\ chunk_overlap < chunk_size
    /\ Len(result.chunks) >= 2
    /\ Len(result.chunks[1]) = chunk_size
    /\ Len(result.chunks[2]) = chunk_size
    /\ Prefix(result.chunks[2], chunk_overlap) = Suffix(result.chunks[1], chunk_overlap)

\* C9: each chunk begins with the last chunk_overlap characters of the chunk
\* before it (all of them when that chunk is shorter), and the docstring
\* example yields three chunks of at most 30 characters, the second
\* beginning with the last 5 characters of the first.
C9_ExactOverlap ==
    (spc = "done" /\ chunk_overlap < chunk_size) =>
        LET cs == result.chunks
        IN  /\ \A j \in 1..(Len(cs) - 1) :
                   LET ov == Min(chunk_overlap, Len(cs[j]))
                   IN  /\ Len(cs[j + 1]) >= ov
                       /\ Prefix(cs[j + 1], ov) = Suffix(cs[j], ov)
            /\ text = ExampleText =>
                   /\ Len(cs) = 3
                   /\ \A j \in 1..Len(cs) : Len(cs[j]) <= 30

\* C10: the add_documents calls of a run carry the chunks in order, each one
\* at most batch_size (100) chunks with the ids of the same ordinals, every
\* chunk in exactly one call; a run that ends normally has issued
\* ceil(n / batch_size) calls, and a run that finds no data directory or no
\* document issues none.
C10_BatchOrderAndCoverage ==
    LET chunks == Chunks(nChunks)
        ids == Ids(seed, chunks)
        sentChunks == Concat([j \in 1..Len(calls) |-> calls[j].chunks])
        sentIds == Concat([j \in 1..Len(calls) |-> calls[j].ids])
    IN  /\ \A j \in 1..Len(calls) :
               /\ Len(calls[j].chunks) >= 1
               /\ Len(calls[j].chunks) <= 100
               /\ Len(calls[j].ids) = Len(calls[j].chunks)
        /\ Len(sentIds) <= nChunks
        /\ sentChunks = Prefix(chunks, Len(sentChunks))
        /\ sentIds = Prefix(ids, Len(sentIds))
        /\ \A p \in 1..Len(sentIds) : sentIds[p][3] = p - 1
        /\ outcome \in {"done", "done_nostats"} =>
               /\ Len(calls) = CeilDiv(nChunks, 100)
               /\ Len(sentIds) = nChunks
        /\ outcome \in {"missing_dir", "no_docs"} => calls = <<>>

\* C10 witness: 201 chunks went out as calls of 100, 100 and 1 chunks.
C10_Witness ==
    /\ outcome = "done"
    /\ nChunks = 201
    /\ Len(calls) = 3
    /\ Len(calls[1].chunks) = 100
    /\ Len(calls[3].chunks) = 1

\* C11: the assembled context has one block per retrieved document, in rank
\* order, block i labelled with rank i and the source of the i-th document;
\* the CLI path shows a text of more than 500 characters as its first 500
\* characters followed by "..." and a shorter text unchanged, and the API
\* path shows every text unchanged.
C11_ContextAssembly ==
    ctxPath # "input" =>
        /\ Len(context) = Len(ctxDocs)
        /\ \A j \in 1..Len(ctxDocs) :
               LET full == TextOf(ctxDocs[j].page_content)
                   shown == context[j].content
               IN  /\ context[j].rank = j
                   /\ context[j].source =
                          (IF "source" \in DOMAIN ctxDocs[j].metadata
                           THEN ctxDocs[j].metadata["source"] ELSE "inconnu")
                   /\ ctxPath = "api" => shown = full
                   /\ (ctxPath = "cli" /\ Len(full) <= 500) => shown = full
                   /\ (ctxPath = "cli" /\ Len(full) > 500) =>
                          /\ Len(shown) = 503
                          /\ SubSeq(shown, 1, 500) = SubSeq(full, 1, 500)
                          /\ SubSeq(shown, 501, 503) = <<".", ".", ".">>

\* C11 witness: the CLI path assembled two documents, the first of 501
\* characters cut to 500 plus the ellipsis, the second of 500 left whole.
C11_Witness ==
    /\ ctxPath = "cli"
    /\ Len(ctxDocs) = 2
    /\ ctxDocs[1].page_content = 501
    /\ ctxDocs[2].page_content = 500
    /\ Len(context) = 2
    /\ Len(context[1].content) = 503
    /\ Len(context[2].content) = 500

====
